---------------------------- MODULE Spec2Model ----------------------------
(***************************************************************************)
(* A model of ai_test_runner/cli.py (class AITestRunner and main).         *)
(*                                                                         *)
(* Texts (file contents, file names, captured stdout) are TLA+ strings,    *)
(* handled as sequences of characters with Len, SubSeq and \o, so that the *)
(* regular expressions, substring tests and string replacements of the     *)
(* source are computed character by character.                             *)
(*                                                                         *)
(* Three specifications share the operators that model the code:           *)
(*   Spec        main() and AITestRunner.run(), step by step               *)
(*   SpecSelect  the stub detectors and create_cmake_lists on one test     *)
(*   SpecParse   the parsing of one test binary's stdout in run_tests      *)
(***************************************************************************)
EXTENDS Integers, Sequences, FiniteSets, TLC

VARIABLES
    pc,                 \* position in main()/run(), or in the spec's driver
    srcDir,             \* <output_dir>/src: file name -> text
    testsDir,           \* the tests directory: test file name -> text
    testAccess,         \* test file name -> "file", "denied" or "directory"
    depMap,             \* self.analyzer's map: function name -> file name
    sourceDir,          \* the repository's src directory: [exists, files]
    verification,       \* the verification_report directory: [exists, files]
    cmakeOnPath,        \* shutil.which("cmake") found it
    compilable_tests,   \* run(): the list find_compilable_tests returned
    gsf,                \* result of get_stubbed_functions_in_test
    fsf,                \* result of _find_stubbed_functions
    cmakeTargets,       \* CMakeLists.txt: test file name -> its source list
    unity,              \* <output_dir>/unity: how copy_unity_framework left it
    buildTestsDir,      \* <output_dir>/tests: file name -> text
    reports,            \* the files of the test_reports directory
    did,                \* the steps of run() performed so far
    configureOutcome,   \* build_tests: outcome of "cmake ."
    buildOutcome,       \* build_tests: outcome of "cmake --build ."
    buildCalls,         \* number of calls of build_tests
    buildResult,        \* what build_tests returned
    executables,        \* run_tests: test_executables
    exeIdx,             \* run_tests: index of the next executable of the loop
    outcomes,           \* per executable: what its execution did
    invocations,        \* per executable: number of subprocess.run calls
    test_results,       \* run_tests: the list of TestResult records
    coverageOutcome,    \* generate_coverage: what the coverage tools did
    stdout,             \* SpecParse: the captured stdout under parse
    returncode,         \* SpecParse: the exit code of the binary
    raised,             \* the exceptions that left an operation: <<step, name>>
    returned,           \* run()'s return value, "none" before it returns
    exitCode            \* main()'s return value, -1 before it returns

\* the inputs no action changes
fileVars  == <<testsDir, testAccess, depMap, sourceDir>>
envVars   == <<verification, cmakeOnPath>>
parseVars == <<stdout, returncode>>
\* what the program computes
selVars   == <<gsf, fsf>>
setupVars == <<unity, buildTestsDir, reports>>
buildVars == <<configureOutcome, buildOutcome, buildCalls, buildResult>>
execVars  == <<executables, exeIdx, outcomes, invocations>>
endVars   == <<coverageOutcome, raised, returned, exitCode>>

vars == <<pc, srcDir, compilable_tests, cmakeTargets, did, test_results,
          fileVars, envVars, parseVars, selVars, setupVars, buildVars, execVars,
          endVars>>

-----------------------------------------------------------------------------
(* Strings *)

At(s, i) == IF i >= 1 /\ i <= Len(s) THEN SubSeq(s, i, i) ELSE ""

Lower == {"a","b","c","d","e","f","g","h","i","j","k","l","m",
          "n","o","p","q","r","s","t","u","v","w","x","y","z"}
Upper == {"A","B","C","D","E","F","G","H","I","J","K","L","M",
          "N","O","P","Q","R","S","T","U","V","W","X","Y","Z"}
Digits == {"0","1","2","3","4","5","6","7","8","9"}

\* \w of the re module
IsWordChar(c) == c \in Lower \cup Upper \cup Digits \cup {"_"}

\* \s of the re module, and the characters str.strip() and str.split() drop
IsSpaceChar(c) == c \in {" ", "\t", "\n", "\r"}

\* str.startswith
StartsWith(s, p) == Len(s) >= Len(p) /\ SubSeq(s, 1, Len(p)) = p

\* str.endswith
EndsWith(s, p) ==
    Len(s) >= Len(p) /\ SubSeq(s, Len(s) - Len(p) + 1, Len(s)) = p

\* sub in s
Contains(s, sub) ==
    \E i \in 1..(Len(s) - Len(sub) + 1) : SubSeq(s, i, i + Len(sub) - 1) = sub

\* str.replace(old, new), old not empty: every occurrence, left to right
RECURSIVE Replace(_, _, _)
Replace(s, old, new) ==
    IF Len(s) < Len(old) THEN s
    ELSE IF SubSeq(s, 1, Len(old)) = old
         THEN new \o Replace(SubSeq(s, Len(old) + 1, Len(s)), old, new)
         ELSE SubSeq(s, 1, 1) \o Replace(SubSeq(s, 2, Len(s)), old, new)

\* the first index >= i of s that holds the character c, 0 when there is none
RECURSIVE IndexOf(_, _, _)
IndexOf(s, c, i) ==
    IF i > Len(s) THEN 0
    ELSE IF At(s, i) = c THEN i ELSE IndexOf(s, c, i + 1)

\* the last index of s that holds the character c, 0 when there is none
RECURSIVE LastIndexOf(_, _, _)
LastIndexOf(s, c, i) ==
    IF i < 1 THEN 0
    ELSE IF At(s, i) = c THEN i ELSE LastIndexOf(s, c, i - 1)

\* the end of the run of word characters that starts at i (i itself if none)
RECURSIVE WordEnd(_, _)
WordEnd(s, i) == IF IsWordChar(At(s, i)) THEN WordEnd(s, i + 1) ELSE i

\* the end of the run of white space that starts at i (i itself if none)
RECURSIVE SkipSpace(_, _)
SkipSpace(s, i) == IF IsSpaceChar(At(s, i)) THEN SkipSpace(s, i + 1) ELSE i

\* str.split(sep) for a one-character sep
RECURSIVE SplitOn(_, _)
SplitOn(s, sep) ==
    LET k == IndexOf(s, sep, 1) IN
    IF k = 0 THEN <<s>>
    ELSE <<SubSeq(s, 1, k - 1)>> \o SplitOn(SubSeq(s, k + 1, Len(s)), sep)

RECURSIVE LStrip(_)
LStrip(s) ==
    IF Len(s) > 0 /\ IsSpaceChar(At(s, 1)) THEN LStrip(SubSeq(s, 2, Len(s)))
    ELSE s

RECURSIVE RStrip(_)
RStrip(s) ==
    IF Len(s) > 0 /\ IsSpaceChar(At(s, Len(s)))
    THEN RStrip(SubSeq(s, 1, Len(s) - 1))
    ELSE s

\* str.strip()
Strip(s) == LStrip(RStrip(s))

\* the end of the run of characters that are not white space, from i
RECURSIVE TokenEnd(_, _)
TokenEnd(s, i) ==
    IF i <= Len(s) /\ ~IsSpaceChar(At(s, i)) THEN TokenEnd(s, i + 1) ELSE i

\* str.split(): the runs of characters that are not white space
RECURSIVE SplitWs(_)
SplitWs(s) ==
    LET t == LStrip(s) IN
    IF Len(t) = 0 THEN <<>>
    ELSE LET e == TokenEnd(t, 1) IN
         <<SubSeq(t, 1, e - 1)>> \o SplitWs(SubSeq(t, e, Len(t)))

DigitVal(c) ==
    CASE c = "0" -> 0 [] c = "1" -> 1 [] c = "2" -> 2 [] c = "3" -> 3
      [] c = "4" -> 4 [] c = "5" -> 5 [] c = "6" -> 6 [] c = "7" -> 7
      [] c = "8" -> 8 [] c = "9" -> 9

AllDigits(s) == Len(s) > 0 /\ \A i \in 1..Len(s) : At(s, i) \in Digits

RECURSIVE NatOf(_)
NatOf(s) ==
    IF Len(s) = 0 THEN 0
    ELSE 10 * NatOf(SubSeq(s, 1, Len(s) - 1)) + DigitVal(At(s, Len(s)))

\* int(s) does not raise ValueError: an optional sign, then decimal digits
IsInt(s) ==
    IF At(s, 1) \in {"+", "-"} THEN AllDigits(SubSeq(s, 2, Len(s)))
    ELSE AllDigits(s)

\* int(s)
IntOf(s) ==
    IF At(s, 1) = "-" THEN 0 - NatOf(SubSeq(s, 2, Len(s)))
    ELSE IF At(s, 1) = "+" THEN NatOf(SubSeq(s, 2, Len(s)))
    ELSE NatOf(s)

-----------------------------------------------------------------------------
(* Stub detection *)

\* \s*\([^)]*\)\s*{ matched from j: the index after the "{", 0 on no match
SignatureEnd(s, j) ==
    LET k == SkipSpace(s, j) IN
    IF At(s, k) # "(" THEN 0
    ELSE LET c == IndexOf(s, ")", k + 1) IN
         IF c = 0 THEN 0
         ELSE LET b == SkipSpace(s, c + 1) IN
              IF At(s, b) = "{" THEN b + 1 ELSE 0

\* (\w+)\s*\([^)]*\)\s*{ matched at i: [ok, name, end]
MatchDefinition(s, i) ==
    LET w == WordEnd(s, i)
        e == IF w > i THEN SignatureEnd(s, w) ELSE 0
    IN  [ok |-> e # 0, name |-> SubSeq(s, i, w - 1), end |-> e]

\* \b\w+\s+(\w+)\s*\([^)]*\)\s*{ matched at i: [ok, name, end]
MatchTypedDefinition(s, i) ==
    LET boundary == IsWordChar(At(s, i)) /\ ~IsWordChar(At(s, i - 1))
        w1 == WordEnd(s, i)
        k  == SkipSpace(s, w1)
        w2 == WordEnd(s, k)
        e  == IF boundary /\ k > w1 /\ w2 > k THEN SignatureEnd(s, w2) ELSE 0
    IN  [ok |-> e # 0, name |-> SubSeq(s, k, w2 - 1), end |-> e]

\* pattern.finditer(content): the group-1 texts of the matches, scanning on
\* from the end of each match
RECURSIVE FindDefinitions(_, _)
FindDefinitions(s, i) ==
    IF i > Len(s) THEN {}
    ELSE LET m == MatchDefinition(s, i) IN
         IF m.ok THEN {m.name} \cup FindDefinitions(s, m.end)
         ELSE FindDefinitions(s, i + 1)

\* re.findall(r'\b\w+\s+(\w+)\s*\([^)]*\)\s*{', content), as a set
RECURSIVE FindTypedDefinitions(_, _)
FindTypedDefinitions(s, i) ==
    IF i > Len(s) THEN {}
    ELSE LET m == MatchTypedDefinition(s, i) IN
         IF m.ok THEN {m.name} \cup FindTypedDefinitions(s, m.end)
         ELSE FindTypedDefinitions(s, i + 1)

\* the prefixes _find_stubbed_functions refuses
ExcludedPrefixes == {"test_", "setUp", "tearDown", "main"}

\* a detector that filters nothing
KeepEveryDefinition(name) == TRUE

\* line 52: the names get_stubbed_functions_in_test keeps
KeptByGetStubbed(name) == ~StartsWith(name, "test_")

\* line 206: the names _find_stubbed_functions keeps
KeptByFindStubbed(name) == \A p \in ExcludedPrefixes : ~StartsWith(name, p)

\* get_stubbed_functions_in_test(test_file_path); a file that cannot be
\* opened leaves the empty set
get_stubbed_functions_in_test(dir, path) ==
    IF path \notin DOMAIN dir THEN {}
    ELSE {f \in FindTypedDefinitions(dir[path], 1) : KeptByGetStubbed(f)}

\* _find_stubbed_functions(test_file_path); FileNotFoundError leaves the
\* empty set
find_stubbed_functions(dir, path) ==
    IF path \notin DOMAIN dir THEN {}
    ELSE {f \in FindDefinitions(dir[path], 1) : KeptByFindStubbed(f)}

\* open(test_file_path, 'r'), lines 43 and 198: the exception it raises,
\* "" when the file opens
OpenError(dir, access, path) ==
    IF path \notin DOMAIN dir THEN "FileNotFoundError"
    ELSE CASE access[path] = "denied" -> "PermissionError"
           [] access[path] = "directory" -> "IsADirectoryError"
           [] OTHER -> ""

\* the files of dir that open() reads
Openable(dir, access) ==
    [n \in {m \in DOMAIN dir : access[m] = "file"} |-> dir[n]]

\* the subclasses of Exception that open() raises
OSErrors == {"FileNotFoundError", "PermissionError", "IsADirectoryError"}

\* lines 42-55: the exception that leaves get_stubbed_functions_in_test, ""
\* when none does ("except Exception")
GetStubbedError(dir, access, path) ==
    LET e == OpenError(dir, access, path) IN IF e \in OSErrors THEN "" ELSE e

\* lines 197-209: the exception that leaves _find_stubbed_functions, "" when
\* none does ("except FileNotFoundError")
FindStubbedError(dir, access, path) ==
    LET e == OpenError(dir, access, path) IN IF e = "FileNotFoundError" THEN "" ELSE e

-----------------------------------------------------------------------------
(* Source selection: create_cmake_lists *)

\* os.path.basename
Basename(path) ==
    LET k == LastIndexOf(path, "/", Len(path)) IN
    SubSeq(path, k + 1, Len(path))

\* os.path.splitext(name)[0]
SplitExtStem(name) ==
    LET k == LastIndexOf(name, ".", Len(name)) IN
    IF k <= 1 THEN name ELSE SubSeq(name, 1, k - 1)

\* The order in which a directory lists its entries.  os.listdir and
\* Path.glob give no order; the model lists in this fixed one.
ListingOrder ==
    <<"bar.c", "foo.c", "foo.h", "main.c", "my_test_util.c", "util.c",
      "test_bar_compiles_no.txt", "test_foo_compiles_yes.txt",
      "test_main_compiles_yes.txt", "test_old_compiles_yes.txt",
      "test_foo", "test_main", "test_foo.c", "test_main.c", "test_my_test_util.c",
      "CTestTestfile.cmake">>

Listing(names) ==
    LET Present(n) == n \in names IN SelectSeq(ListingOrder, Present)

\* line 153: the .c files of <output_dir>/src
SourceFiles(src) ==
    LET IsC(n) == EndsWith(n, ".c") IN SelectSeq(Listing(DOMAIN src), IsC)

\* line 161
SourceUnderTest(test_name) == Replace(test_name, "test_", "") \o ".c"

\* a filter that looks for the definition of a stubbed name, not for its text
SourceFilesDefiningStubs(src, stubbed) ==
    {s \in DOMAIN src :
        EndsWith(s, ".c") /\ \E func \in stubbed : func \in FindDefinitions(src[s], 1)}

\* lines 167-173: the source files whose text holds a stubbed name
SourceFilesWithStubs(src, stubbed) ==
    {s \in DOMAIN src :
        EndsWith(s, ".c") /\ \E func \in stubbed : Contains(src[s], func)}

\* line 176 without the filter
AllSources(src, with_stubs) == SourceFiles(src)

\* line 176: all sources minus the ones that are stubbed
UnstubbedSources(src, with_stubs) ==
    LET Keep(s) == s \notin with_stubs IN SelectSeq(SourceFiles(src), Keep)

\* lines 156-185: the source list of one test's target
TestSources(src, tests, test_file) ==
    LET test_name == SplitExtStem(Basename(test_file))
        source_under_test == SourceUnderTest(test_name)
        stubbed == find_stubbed_functions(tests, test_file)
        kept == UnstubbedSources(src, SourceFilesWithStubs(src, stubbed))
        test_sources == [i \in 1..Len(kept) |-> "src/" \o kept[i]]
        primary_source == "src/" \o source_under_test
    IN  IF (\A i \in 1..Len(test_sources) : test_sources[i] # primary_source)
           /\ source_under_test \in DOMAIN src
        THEN Append(test_sources, primary_source)
        ELSE test_sources

\* lines 155-191: the add_executable source lists written to CMakeLists.txt
CMakeTargets(src, tests, test_files) ==
    [t \in {test_files[i] : i \in 1..Len(test_files)} |->
        TestSources(src, tests, t)]

\* lines 155-164: the index of the first test file whose stub detection
\* raises, 0 when the loop over the test files reaches its end
FirstStubError(tests, access, test_files) ==
    LET bad == {i \in 1..Len(test_files) :
                   FindStubbedError(tests, access, test_files[i]) # ""}
    IN  IF bad = {} THEN 0 ELSE CHOOSE i \in bad : \A j \in bad : i <= j

\* lines 139-192: the exception that leaves create_cmake_lists, "" when
\* CMakeLists.txt is written
CreateCMakeListsError(tests, access, test_files) ==
    LET i == FirstStubError(tests, access, test_files) IN
    IF i = 0 THEN "" ELSE FindStubbedError(tests, access, test_files[i])

-----------------------------------------------------------------------------
(* The files the specifications draw their inputs from *)

FooCallsBar == "int foo(int x) {\n  return bar(x) + 1;\n}\n"
FooAlone    == "int foo(int x) {\n  return x;\n}\n"
BarOnly     == "int bar(int x) {\n  return 2 * x;\n}\n"
BarAndBaz   == "int bar(int x) {\n  return x;\n}\nint baz(void) {\n  return 0;\n}\n"
FooHeader   == "int foo(int x);\n"
MainCallsFoo == "int main(void) {\n  return foo(1);\n}\n"
MainCallsBar == "int main(void) {\n  return bar(1);\n}\n"
UtilPlain   == "int util_init(void) {\n  return 0;\n}\n"
UtilMentionsBar == "/* not bar */\nint util_init(void) {\n  return 0;\n}\n"

SrcNames == {"bar.c", "foo.c", "foo.h", "main.c", "my_test_util.c", "util.c"}

SrcTexts(n) ==
    CASE n = "foo.c"  -> {FooCallsBar, FooAlone}
      [] n = "bar.c"  -> {BarOnly, BarAndBaz}
      [] n = "foo.h"  -> {FooHeader}
      [] n = "main.c" -> {MainCallsFoo, MainCallsBar}
      [] n = "util.c" -> {UtilPlain, UtilMentionsBar}
      [] n = "my_test_util.c" -> {UtilMentionsBar}

\* the largest number of files of <output_dir>/src
MaxSrcFiles == 3

SrcDirs ==
    UNION {{d \in [S -> UNION {SrcTexts(n) : n \in S}] :
               \A n \in S : d[n] \in SrcTexts(n)} :
           S \in {T \in SUBSET SrcNames : Cardinality(T) <= MaxSrcFiles}}

Fixture == "void setUp(void) {}\nvoid tearDown(void) {}\n"
Runner  == "void test_a(void) {\n}\nint main(void) {\n  return 0;\n}\n"

TestNoStub   == Fixture \o Runner
TestStubsBar == Fixture \o "int bar(int x) { return 7; }\n" \o Runner
TestStubsFoo == "int foo(int x) { return 7; }\n" \o Runner
TestStubsBaz == "int baz(void) { return 1; }\n" \o Runner
TestWithIf   == "void test_a(void) {\n  if (1) {\n  }\n}\n"

TestNames == {"test_foo.c", "test_main.c"}
TestTexts == {TestNoStub, TestStubsBar, TestStubsFoo, TestStubsBaz, TestWithIf}

\* the test files create_cmake_lists is given, one of them the test of a
\* module whose own name holds "test_"
SelectTestNames == TestNames \cup {"test_my_test_util.c"}

\* the maps the dependency analyzer may hold
DepMaps ==
    {[f \in {} |-> ""],
     [f \in {"foo", "bar", "baz", "main", "util_init"} |->
        CASE f = "foo" -> "foo.c" [] f = "bar" -> "bar.c" [] f = "baz" -> "bar.c"
          [] f = "main" -> "main.c" [] f = "util_init" -> "util.c"]}

NoFiles == [n \in {} |-> ""]

\* values of the variables a specification does not use
IdleRun ==
    /\ verification = [exists |-> FALSE, files |-> {}]
    /\ sourceDir = [exists |-> FALSE, files |-> NoFiles]
    /\ unity = "none" /\ buildTestsDir = NoFiles /\ reports = {}
    /\ coverageOutcome = "none"
    /\ cmakeOnPath = TRUE
    /\ configureOutcome = "none"
    /\ buildOutcome = "none"
    /\ buildCalls = 0
    /\ buildResult = "none"
    /\ executables = <<>>
    /\ exeIdx = 1
    /\ outcomes = <<>>
    /\ invocations = <<>>
    /\ test_results = <<>>
    /\ raised = {}
    /\ returned = "none"
    /\ exitCode = -1

IdleParse == stdout = "" /\ returncode = 0

IdleSelect == gsf = {} /\ fsf = {}

-----------------------------------------------------------------------------
(* SpecSelect: the stub detectors and create_cmake_lists on one test file *)

\* what the tests directory holds for the test files create_cmake_lists is
\* given: one test file that is readable, missing, unreadable or a
\* directory, or two test files of which one may not be readable
SelectInputs ==
    {[test_files |-> <<t>>, dir |-> [n \in {t} |-> x], access |-> [n \in {t} |-> "file"]] :
        t \in SelectTestNames, x \in TestTexts}
    \cup {[test_files |-> <<t>>, dir |-> NoFiles, access |-> NoFiles] :
            t \in SelectTestNames}
    \cup {[test_files |-> <<t>>, dir |-> [n \in {t} |-> TestStubsBar],
           access |-> [n \in {t} |-> a]] :
            t \in SelectTestNames, a \in {"denied", "directory"}}
    \cup {[test_files |-> <<"test_foo.c", "test_main.c">>,
           dir |-> [n \in TestNames |->
                      IF n = "test_foo.c" THEN TestStubsBar ELSE TestNoStub],
           access |-> [n \in TestNames |-> IF n = "test_foo.c" THEN a[1] ELSE a[2]]] :
            a \in {<<"file", "file">>, <<"denied", "file">>, <<"file", "directory">>}}

SelectInit ==
    /\ pc = "select"
    /\ srcDir \in SrcDirs
    /\ \E inp \in SelectInputs :
          /\ compilable_tests = inp.test_files
          /\ testsDir = inp.dir
          /\ testAccess = inp.access
    /\ depMap \in DepMaps
    /\ cmakeTargets = NoFiles
    /\ did = {}
    /\ IdleSelect /\ IdleParse /\ IdleRun

SelectGetStubbed ==
    /\ pc = "select"
    /\ LET e == GetStubbedError(testsDir, testAccess, compilable_tests[1]) IN
       /\ gsf' = get_stubbed_functions_in_test(Openable(testsDir, testAccess),
                                               compilable_tests[1])
       /\ raised' = IF e = "" THEN raised
                    ELSE raised \cup {<<"get_stubbed_functions_in_test", e>>}
    /\ pc' = "select_gsf"
    /\ UNCHANGED <<srcDir, compilable_tests, fsf, cmakeTargets, did, test_results,
                   setupVars, fileVars, envVars, parseVars, buildVars, execVars,
                   coverageOutcome, returned, exitCode>>

SelectFindStubbed ==
    /\ pc = "select_gsf"
    /\ LET e == FindStubbedError(testsDir, testAccess, compilable_tests[1]) IN
       IF e = ""
       THEN /\ fsf' = find_stubbed_functions(testsDir, compilable_tests[1])
            /\ raised' = raised
       ELSE /\ fsf' = fsf
            /\ raised' = raised \cup {<<"_find_stubbed_functions", e>>}
    /\ pc' = "select_fsf"
    /\ UNCHANGED <<srcDir, compilable_tests, gsf, cmakeTargets, did, test_results,
                   setupVars, fileVars, envVars, parseVars, buildVars, execVars,
                   coverageOutcome, returned, exitCode>>

SelectCreateCMakeLists ==
    /\ pc = "select_fsf"
    /\ LET e == CreateCMakeListsError(testsDir, testAccess, compilable_tests) IN
       IF e = ""
       THEN /\ cmakeTargets' = CMakeTargets(srcDir, testsDir, compilable_tests)
            /\ raised' = raised
       ELSE /\ cmakeTargets' = cmakeTargets
            /\ raised' = raised \cup {<<"create_cmake_lists", e>>}
    /\ did' = did \cup {"create_cmake_lists"}
    /\ pc' = "select_done"
    /\ UNCHANGED <<srcDir, compilable_tests, test_results, setupVars, fileVars, envVars,
                   parseVars, selVars, buildVars, execVars, coverageOutcome, returned,
                   exitCode>>

SelectNext == SelectGetStubbed \/ SelectFindStubbed \/ SelectCreateCMakeLists

SpecSelect == SelectInit /\ [][SelectNext]_vars

-----------------------------------------------------------------------------
(* Claims on stub detection and source selection (SpecSelect) *)

SelectionDone == "create_cmake_lists" \in did

\* the elements of a sequence
Range(q) == {q[i] : i \in 1..Len(q)}

CKeywords == {"if", "for", "while", "switch"}

\* the C text defines (implements) function f
Implements(text, f) == f \in FindDefinitions(text, 1) \ CKeywords

\* the StubSet of a test: the functions its text defines, the test
\* functions, the fixture hooks and the entry point left out
StubSet(t) ==
    IF t \notin DOMAIN testsDir THEN {}
    ELSE {f \in FindDefinitions(testsDir[t], 1) \ CKeywords :
             ~StartsWith(f, "test_") /\ f \notin {"setUp", "tearDown", "main"}}

ModuleUnderTest(t) == SourceUnderTest(SplitExtStem(Basename(t)))

IsEntryPointTest(t) == t = "test_main.c"

\* C1: a source file that implements a function the test stubs is not in
\* the test target's source list, the module under test included.
C1_StubbedFileExcluded ==
    SelectionDone =>
        \A t \in DOMAIN cmakeTargets : \A S \in DOMAIN srcDir :
            (\E f \in StubSet(t) : Implements(srcDir[S], f))
                => ("src/" \o S) \notin Range(cmakeTargets[t])

\* the names that text calls or defines: a word, then "("
RECURSIVE CalledNames(_, _)
CalledNames(s, i) ==
    IF i > Len(s) THEN {}
    ELSE LET w == WordEnd(s, i) IN
         IF w > i
         THEN (IF At(s, SkipSpace(s, w)) = "(" THEN {SubSeq(s, i, w - 1)} ELSE {})
              \cup CalledNames(s, w)
         ELSE CalledNames(s, i + 1)

\* the files the DependencyMap gives for the functions the files F call
DepFiles(F) ==
    {depMap[g] : g \in (UNION {CalledNames(srcDir[f], 1) : f \in F \cap DOMAIN srcDir})
                         \cap DOMAIN depMap}

RECURSIVE Expand(_, _)
Expand(F, n) == IF n = 0 THEN F ELSE Expand(F \cup DepFiles(F), n - 1)

\* the module under test and its transitive dependencies per DependencyMap
Reachable(m) == Expand({m}, Cardinality(SrcNames))

ApplicationSources == {S \in DOMAIN srcDir : EndsWith(S, ".c")}

C4_NoTestNamesInStubs ==
    (pc \in {"select_fsf", "select_done"}) =>
        \A n \in gsf \cup fsf :
            ~StartsWith(n, "test_") /\ n \notin {"setUp", "tearDown", "main"}

\* C12: the stub filter takes a source file out of a test's selection only
\* when the file implements a function of the test's StubSet; a .c file that
\* implements none of them, one that only calls or mentions a stubbed name
\* included, is in the selection.
C12_OnlyImplementersRemoved ==
    SelectionDone =>
        \A t \in DOMAIN cmakeTargets : \A S \in ApplicationSources :
            (\A f \in StubSet(t) : ~Implements(srcDir[S], f))
                => ("src/" \o S) \in Range(cmakeTargets[t])

\* the name of test file t without its leading "test_"
WithoutLeadingPrefix(t) ==
    IF StartsWith(t, "test_") THEN SubSeq(t, Len("test_") + 1, Len(t)) ELSE t

\* C13: for a test file test_<m>.c the module under test that
\* create_cmake_lists derives is <m>.c, whatever <m> holds, and that file,
\* when the build's src directory has it, is in the test's selection.
C13_ModuleNameIsSuffix ==
    SelectionDone =>
        \A t \in DOMAIN cmakeTargets :
            (StartsWith(t, "test_") /\ EndsWith(t, ".c")) =>
                /\ SourceUnderTest(SplitExtStem(Basename(t))) = WithoutLeadingPrefix(t)
                /\ WithoutLeadingPrefix(t) \in DOMAIN srcDir
                      => ("src/" \o WithoutLeadingPrefix(t)) \in Range(cmakeTargets[t])

\* test file t cannot be read: it is missing, without read permission or a
\* directory
Unreadable(t) == OpenError(testsDir, testAccess, t) # ""

\* C14: for a test file that cannot be read both stub detectors yield the
\* empty set and no exception leaves them or create_cmake_lists: the
\* descriptor has a target for every test file, the unreadable one's built
\* with the empty stub set, all .c files of the build's src directory.
C14_UnreadableTestIsolated ==
    /\ raised = {}
    /\ (pc \in {"select_gsf", "select_fsf", "select_done"}
            /\ Unreadable(compilable_tests[1])) => gsf = {}
    /\ (pc \in {"select_fsf", "select_done"}
            /\ Unreadable(compilable_tests[1])) => fsf = {}
    /\ SelectionDone =>
          \A t \in Range(compilable_tests) :
              /\ t \in DOMAIN cmakeTargets
              /\ Unreadable(t) =>
                    Range(cmakeTargets[t]) = {"src/" \o S : S \in ApplicationSources}

-----------------------------------------------------------------------------
(* run_tests: one executable's TestResult *)

NoCounts == [tests |-> 0, passed |-> 0, failed |-> 0]

\* lines 310-319: the summary branch
ParseSummary(c, line) ==
    LET parts == SplitWs(line) IN
    IF Len(parts) < 3 THEN c
    ELSE IF ~IsInt(parts[1]) THEN c
    ELSE IF ~IsInt(parts[3]) THEN [c EXCEPT !.tests = IntOf(parts[1])]
    ELSE [tests  |-> IntOf(parts[1]),
          passed |-> IntOf(parts[1]) - IntOf(parts[3]),
          failed |-> IntOf(parts[3])]

\* a scan in which a line that holds both markers counts as a pass and as a
\* failure
ParseLineBoth(c, raw) ==
    LET line == Strip(raw)
        p == IF Contains(line, ":PASS") THEN 1 ELSE 0
        f == IF Contains(line, ":FAIL") THEN 1 ELSE 0
    IN  IF p + f > 0
        THEN [tests |-> c.tests + p + f, passed |-> c.passed + p,
              failed |-> c.failed + f]
        ELSE IF EndsWith(line, "Tests") /\ Contains(line, "Failures")
             THEN ParseSummary(c, line)
             ELSE c

\* lines 303-319: one line of the scan
ParseLine(c, raw) ==
    LET line == Strip(raw) IN
    IF Contains(line, ":PASS")
    THEN [c EXCEPT !.tests = @ + 1, !.passed = @ + 1]
    ELSE IF Contains(line, ":FAIL")
         THEN [c EXCEPT !.tests = @ + 1, !.failed = @ + 1]
         ELSE IF EndsWith(line, "Tests") /\ Contains(line, "Failures")
              THEN ParseSummary(c, line)
              ELSE c

RECURSIVE ParseLines(_, _, _)
ParseLines(c, lines, i) ==
    IF i > Len(lines) THEN c
    ELSE ParseLines(ParseLine(c, lines[i]), lines, i + 1)

\* lines 298-319: the counts parsed from a captured stdout
ParseOutput(out) == ParseLines(NoCounts, SplitOn(out, "\n"), 1)

\* lines 321-331: the TestResult of a binary that ran to its end
CompletedResult(name, out, rc) ==
    LET c == ParseOutput(out) IN
    [name |-> name, success |-> (rc = 0), output |-> out, errors |-> "",
     returncode |-> rc, individual_tests |-> c.tests,
     individual_passed |-> c.passed, individual_failed |-> c.failed]

PassLine    == "t.c:3:test_a:PASS"
FailLine    == "t.c:7:test_b:FAIL: Expected 1 Was 2"
BothLine    == "t.c:9:test_c:FAIL: Expected 'x:PASS'"
SummaryLine == "5 Tests 1 Failures 0 Ignored"
DashLine    == "-----------------------"
OddSummary  == "0 Failures 5 Tests"
HalfSummary == "2 Failures in 3 Tests"

OutputLines ==
    {PassLine, FailLine, BothLine, SummaryLine, DashLine, OddSummary, HalfSummary}

\* the largest number of lines of a captured stdout
MaxLines == 3

RECURSIVE Join(_, _)
Join(lines, i) ==
    IF i > Len(lines) THEN ""
    ELSE lines[i] \o "\n" \o Join(lines, i + 1)

Stdouts ==
    {Join(q, 1) : q \in UNION {[1..n -> OutputLines] : n \in 0..MaxLines}}

-----------------------------------------------------------------------------
(* SpecParse: run_tests on one binary that ran to its end *)

ParseInit ==
    /\ pc = "parse"
    /\ stdout \in Stdouts
    /\ returncode \in {0, 1}
    /\ srcDir = NoFiles /\ testsDir = NoFiles /\ depMap = NoFiles
    /\ testAccess = NoFiles
    /\ cmakeTargets = NoFiles
    /\ compilable_tests = <<>>
    /\ did = {}
    /\ IdleSelect /\ IdleRun

ParseRun ==
    /\ pc = "parse"
    /\ test_results' = <<CompletedResult("test_foo", stdout, returncode)>>
    /\ pc' = "parsed"
    /\ UNCHANGED <<srcDir, compilable_tests, cmakeTargets, did, setupVars, fileVars,
                   envVars, parseVars, selVars, buildVars, execVars, endVars>>

ParseNext == ParseRun

SpecParse == ParseInit /\ [][ParseNext]_vars

\* the stripped lines of the captured stdout
StdoutLines == LET q == SplitOn(stdout, "\n") IN [i \in 1..Len(q) |-> Strip(q[i])]

CountLines(P(_)) == Cardinality({i \in 1..Len(StdoutLines) : P(StdoutLines[i])})

HasPass(line) == Contains(line, ":PASS")
HasFail(line) == Contains(line, ":FAIL")
HasFailOnly(line) == Contains(line, ":FAIL") /\ ~Contains(line, ":PASS")

\* a line of the form <N> Tests <M> Failures <K> Ignored
IsSummaryLine(line) ==
    LET parts == SplitWs(line) IN
    /\ Len(parts) = 6
    /\ IsInt(parts[1]) /\ parts[2] = "Tests"
    /\ IsInt(parts[3]) /\ parts[4] = "Failures"
    /\ IsInt(parts[5]) /\ parts[6] = "Ignored"

\* a line the scan takes for a summary
IsScannedSummary(line) == EndsWith(line, "Tests") /\ Contains(line, "Failures")

Parsed == pc = "parsed"

C6_SummaryOverrides ==
    Parsed =>
        \A i \in 1..Len(StdoutLines) :
            (IsSummaryLine(StdoutLines[i]) /\ CountLines(IsSummaryLine) = 1) =>
                LET parts == SplitWs(StdoutLines[i])
                    r == test_results[1]
                IN  /\ r.individual_tests = IntOf(parts[1])
                    /\ r.individual_failed = IntOf(parts[3])
                    /\ r.individual_passed = IntOf(parts[1]) - IntOf(parts[3])

-----------------------------------------------------------------------------
(* Spec: main() and AITestRunner.run() *)

\* Path.stem
Stem(name) == SplitExtStem(name)

\* Path.suffix
Suffix(name) ==
    LET k == LastIndexOf(name, ".", Len(name)) IN
    IF k <= 1 THEN "" ELSE SubSeq(name, k, Len(name))

\* line 68: glob("*compiles_yes.txt")
IsCompilesYesReport(name) == EndsWith(name, "compiles_yes.txt")

\* lines 71-72: the test file a report names
TestFileOf(report) == Replace(Stem(report), "_compiles_yes", "") \o ".c"

\* lines 59-80
FindCompilableTests(ver, tests) ==
    IF ~ver.exists THEN <<>>
    ELSE LET report_files == SelectSeq(Listing(ver.files), IsCompilesYesReport)
             named == [i \in 1..Len(report_files) |-> TestFileOf(report_files[i])]
             Exists(t) == t \in DOMAIN tests
         IN  SelectSeq(named, Exists)

\* a run() that goes on without compilable tests
NeverAborts(tests) == FALSE

\* line 558: if not compilable_tests
NoCompilableTests(tests) == Len(tests) = 0

\* lines 212-226: <output_dir>/src after the copy of the *.c and *.h files
CopySourceFiles(build_src, source) ==
    IF ~source.exists THEN build_src
    ELSE LET copied == {n \in DOMAIN source.files :
                           EndsWith(n, ".c") \/ EndsWith(n, ".h")}
         IN  [n \in DOMAIN build_src \cup copied |->
                 IF n \in copied THEN source.files[n] ELSE build_src[n]]

\* lines 228-235: <output_dir>/tests after the copy of the compilable tests
CopyTestFiles(build_tests_dir, tests, test_files) ==
    LET copied == {test_files[i] : i \in 1..Len(test_files)} IN
    [n \in DOMAIN build_tests_dir \cup copied |->
        IF n \in copied THEN tests[n] ELSE build_tests_dir[n]]

\* lines 233-234: the index of the first test file shutil.copy2 cannot
\* read, 0 when every test file is copied
FirstCopyError(tests, access, test_files) ==
    LET bad == {i \in 1..Len(test_files) : OpenError(tests, access, test_files[i]) # ""}
    IN  IF bad = {} THEN 0 ELSE CHOOSE i \in bad : \A j \in bad : i <= j

\* lines 367-406: the old reports are removed, one report per result written
GenerateTestReports(old, results) ==
    {f \in old : ~EndsWith(f, "_report.txt")}
    \cup {results[i].name \o "_report.txt" : i \in 1..Len(results)}

\* a build_tests that takes every cmake run for a success
BuildAlwaysSucceeds(configure, build) == "True"

\* lines 241-271: what build_tests returns
BuildTestsResult(configure, build) ==
    IF configure = "ok" /\ build = "ok" THEN "True" ELSE "False"

\* lines 278-279: the test executables among the entries of <output_dir>
TestExecutables(dir) ==
    LET Wanted(n) == /\ Contains(n, "test")
                     /\ dir[n].is_file
                     /\ Suffix(n) \in {".exe", ""}
                     /\ ~Contains(n, "CTest")
        names == SelectSeq(Listing(DOMAIN dir), Wanted)
    IN  [i \in 1..Len(names) |-> [name |-> names[i], x_ok |-> dir[names[i]].x_ok]]

\* line 294: the timeout of one test binary
TestTimeout == 30

\* a timeout recorded with the exit code of a failed test
TimeoutAsFailure(name) ==
    [name |-> name, success |-> FALSE, output |-> "", errors |-> "Test timed out",
     returncode |-> 1, individual_tests |-> 0, individual_passed |-> 0,
     individual_failed |-> 0]

\* lines 339-349
TimeoutResult(name) ==
    [name |-> name, success |-> FALSE, output |-> "", errors |-> "Test timed out",
     returncode |-> -1, individual_tests |-> 0, individual_passed |-> 0,
     individual_failed |-> 0]

\* lines 352-362
ExceptionResult(name, e) ==
    [name |-> name, success |-> FALSE, output |-> "", errors |-> e,
     returncode |-> -1, individual_tests |-> 0, individual_passed |-> 0,
     individual_failed |-> 0]

\* lines 288-363: the TestResult of one execution
ResultOf(name, o) ==
    IF o.error # "" THEN ExceptionResult(name, o.error)
    ELSE IF o.elapsed > TestTimeout THEN TimeoutResult(name)
    ELSE CompletedResult(name, o.out, o.rc)

RECURSIVE Sum(_, _, _)
Sum(results, field, i) ==
    IF i > Len(results) THEN 0 ELSE results[i][field] + Sum(results, field, i + 1)

\* a return value that counts executables only
ExecutablesPassed(results) ==
    \A i \in 1..Len(results) : results[i].success

\* a return value that a failed executable always turns into a failure
AnyFailureFails(results) ==
    /\ \A i \in 1..Len(results) : results[i].success
    /\ Sum(results, "individual_passed", 1) = Sum(results, "individual_tests", 1)

\* a return value that also asks for a coverage report
CoverageGatesReturn(results) ==
    /\ coverageOutcome = "ok"
    /\ IF Sum(results, "individual_tests", 1) > 0
       THEN Sum(results, "individual_passed", 1) = Sum(results, "individual_tests", 1)
       ELSE \A i \in 1..Len(results) : results[i].success

\* lines 585-595: the value run() returns after the summary
RunReturnValue(results) ==
    LET total_individual_tests == Sum(results, "individual_tests", 1)
        total_individual_passed == Sum(results, "individual_passed", 1)
        success_count == Cardinality({i \in 1..Len(results) : results[i].success})
    IN  IF total_individual_tests > 0
        THEN total_individual_passed = total_individual_tests
        ELSE success_count = Len(results)

\* line 664
ExitCode(success) == IF success = "True" THEN 0 ELSE 1

UnityPass == PassLine \o "\n" \o DashLine \o "\n1 Tests 0 Failures 0 Ignored\nOK\n"
UnityFail == PassLine \o "\n" \o FailLine \o "\n" \o DashLine
                \o "\n2 Tests 1 Failures 0 Ignored\nFAIL\n"

\* what one execution of a test binary may do
RunOutcomes ==
    {[out |-> t, rc |-> c, elapsed |-> 1, error |-> ""] :
        t \in {"", UnityPass, UnityFail}, c \in {0, 1}}
    \cup {[out |-> "", rc |-> 0, elapsed |-> TestTimeout + 1, error |-> ""],
          [out |-> "", rc |-> 0, elapsed |-> 0, error |-> "Exec format error"]}

Skipped == [out |-> "", rc |-> 0, elapsed |-> 0, error |-> "not run"]

VerificationDirs ==
    {[exists |-> FALSE, files |-> {}]}
    \cup {[exists |-> TRUE, files |-> F] :
            F \in {{}, {"test_bar_compiles_no.txt", "test_old_compiles_yes.txt"},
                   {"test_foo_compiles_yes.txt"},
                   {"test_bar_compiles_no.txt", "test_foo_compiles_yes.txt",
                    "test_main_compiles_yes.txt", "test_old_compiles_yes.txt"}}}

RunTestsDirs ==
    {NoFiles, [n \in {"test_foo.c"} |-> TestStubsBar],
     [n \in TestNames |-> IF n = "test_foo.c" THEN TestStubsBar ELSE TestNoStub]}

RepoSources ==
    {[exists |-> FALSE, files |-> NoFiles],
     [exists |-> TRUE,
      files |-> [n \in {"foo.c", "bar.c", "foo.h", "main.c"} |->
                   CASE n = "foo.c" -> FooCallsBar [] n = "bar.c" -> BarOnly
                     [] n = "foo.h" -> FooHeader [] n = "main.c" -> MainCallsFoo]]}

\* lines 424-460: how the four coverage tool invocations may end: all exit
\* with zero, one of them exits non-zero (CalledProcessError), or lcov or
\* genhtml is not installed (FileNotFoundError)
CoverageOutcomes ==
    {"ok", "capture_failed", "extract_failed", "genhtml_failed", "list_failed",
     "lcov_missing", "genhtml_missing"}

\* lines 452-460: the value generate_coverage returns
GenerateCoverageResult(outcome) == IF outcome = "ok" THEN "True" ELSE "False"

\* what the test files of the tests directory are: regular readable files,
\* or test_foo.c without read permission or a directory of that name
RunTestAccess(dir) ==
    {[n \in DOMAIN dir |-> "file"]}
    \cup {[n \in DOMAIN dir |-> IF n = "test_foo.c" THEN a ELSE "file"] :
            a \in IF "test_foo.c" \in DOMAIN dir THEN {"denied", "directory"} ELSE {}}

\* the test_reports directory as an earlier run left it
StaleReports == {{}, {"test_old_report.txt"}}

\* the entries of <output_dir> after the build
BuildDirs ==
    {[n \in S \cup {"tests", "CTestTestfile.cmake"} |->
        [is_file |-> n # "tests", x_ok |-> (n = "tests" \/ n = "test_foo" \/ mx)]] :
     S \in SUBSET {"test_foo", "test_main"}, mx \in BOOLEAN}

Init ==
    /\ pc = "main"
    /\ cmakeOnPath \in BOOLEAN
    /\ verification \in VerificationDirs
    /\ testsDir \in RunTestsDirs
    /\ testAccess \in RunTestAccess(testsDir)
    /\ sourceDir \in RepoSources
    /\ depMap = NoFiles
    /\ srcDir = NoFiles
    /\ unity = "none" /\ buildTestsDir = NoFiles
    /\ reports \in StaleReports
    /\ compilable_tests = <<>>
    /\ cmakeTargets = NoFiles
    /\ did = {}
    /\ configureOutcome = "none" /\ buildOutcome = "none"
    /\ buildCalls = 0 /\ buildResult = "none"
    /\ executables = <<>> /\ exeIdx = 1 /\ outcomes = <<>> /\ invocations = <<>>
    /\ test_results = <<>>
    /\ coverageOutcome = "none" /\ raised = {}
    /\ returned = "none" /\ exitCode = -1
    /\ IdleSelect /\ IdleParse

\* main(), lines 644-661: the required tools, then the runner
main ==
    /\ pc = "main"
    /\ IF cmakeOnPath
       THEN pc' = "find_compilable_tests" /\ exitCode' = exitCode
       ELSE pc' = "done" /\ exitCode' = 1
    /\ UNCHANGED <<srcDir, compilable_tests, cmakeTargets, did, test_results,
                   setupVars, fileVars, envVars, parseVars, selVars, buildVars, execVars,
                   coverageOutcome, raised, returned>>

\* run(), lines 556-560
find_compilable_tests ==
    /\ pc = "find_compilable_tests"
    /\ compilable_tests' = FindCompilableTests(verification, testsDir)
    /\ IF NoCompilableTests(compilable_tests')
       THEN /\ returned' = "False"
            /\ exitCode' = ExitCode(returned')
            /\ pc' = "done"
       ELSE /\ pc' = "copy_unity_framework"
            /\ UNCHANGED <<returned, exitCode>>
    /\ UNCHANGED <<srcDir, cmakeTargets, did, test_results, setupVars, fileVars, envVars,
                   parseVars, selVars, buildVars, execVars, coverageOutcome, raised>>

\* run(), line 563, lines 82-137: the framework is copied from the reference
\* directory, downloaded or, when the download fails, left out with a warning
copy_unity_framework ==
    /\ pc = "copy_unity_framework"
    /\ unity' \in {"copied", "downloaded", "unavailable"}
    /\ did' = did \cup {"copy_unity_framework"}
    /\ pc' = "copy_source_files"
    /\ UNCHANGED <<srcDir, compilable_tests, cmakeTargets, test_results,
                   buildTestsDir, reports, fileVars,
                   envVars, parseVars, selVars, buildVars, execVars, endVars>>

\* run(), line 564
copy_source_files ==
    /\ pc = "copy_source_files"
    /\ srcDir' = CopySourceFiles(srcDir, sourceDir)
    /\ did' = did \cup {"copy_source_files"}
    /\ pc' = "copy_test_files"
    /\ UNCHANGED <<compilable_tests, cmakeTargets, test_results, setupVars, fileVars,
                   envVars, parseVars, selVars, buildVars, execVars, endVars>>

\* run(), line 565; an exception of shutil.copy2 leaves run() and main(), and
\* the interpreter ends with exit status 1
copy_test_files ==
    /\ pc = "copy_test_files"
    /\ LET i == FirstCopyError(testsDir, testAccess, compilable_tests) IN
       IF i = 0
       THEN /\ buildTestsDir' = CopyTestFiles(buildTestsDir, testsDir, compilable_tests)
            /\ pc' = "create_cmake_lists"
            /\ UNCHANGED <<raised, exitCode>>
       ELSE /\ buildTestsDir' = CopyTestFiles(buildTestsDir, testsDir,
                                              SubSeq(compilable_tests, 1, i - 1))
            /\ raised' = raised \cup
                   {<<"copy_test_files",
                      OpenError(testsDir, testAccess, compilable_tests[i])>>}
            /\ exitCode' = 1
            /\ pc' = "done"
    /\ did' = did \cup {"copy_test_files"}
    /\ UNCHANGED <<srcDir, compilable_tests, cmakeTargets, test_results, unity,
                   reports, fileVars, envVars, parseVars, selVars, buildVars,
                   execVars, coverageOutcome, returned>>

\* run(), line 566; an exception of the stub detection leaves run() and
\* main() before CMakeLists.txt is written
create_cmake_lists ==
    /\ pc = "create_cmake_lists"
    /\ LET e == CreateCMakeListsError(testsDir, testAccess, compilable_tests) IN
       IF e = ""
       THEN /\ cmakeTargets' = CMakeTargets(srcDir, testsDir, compilable_tests)
            /\ pc' = "build_tests"
            /\ UNCHANGED <<raised, exitCode>>
       ELSE /\ cmakeTargets' = cmakeTargets
            /\ raised' = raised \cup {<<"create_cmake_lists", e>>}
            /\ exitCode' = 1
            /\ pc' = "done"
    /\ did' = did \cup {"create_cmake_lists"}
    /\ UNCHANGED <<srcDir, compilable_tests, test_results, setupVars, fileVars, envVars,
                   parseVars, selVars, buildVars, execVars, coverageOutcome, returned>>

\* run(), lines 569-570
build_tests ==
    /\ pc = "build_tests"
    /\ \E configure \in {"ok", "failed", "missing"} :
       \E build \in IF configure = "ok" THEN {"ok", "failed"} ELSE {"none"} :
          /\ configureOutcome' = configure
          /\ buildOutcome' = build
          /\ buildResult' = BuildTestsResult(configure, build)
    /\ buildCalls' = buildCalls + 1
    /\ did' = did \cup {"build_tests"}
    /\ IF buildResult' = "True"
       THEN /\ pc' = "run_tests"
            /\ UNCHANGED <<returned, exitCode>>
       ELSE /\ returned' = "False"
            /\ exitCode' = ExitCode(returned')
            /\ pc' = "done"
    /\ UNCHANGED <<srcDir, compilable_tests, cmakeTargets, test_results, setupVars, fileVars,
                   envVars, parseVars, selVars, execVars, coverageOutcome, raised>>

\* run_tests, lines 277-283: the executables found in <output_dir>
run_tests ==
    /\ pc = "run_tests"
    /\ \E dir \in BuildDirs : executables' = TestExecutables(dir)
    /\ exeIdx' = 1
    /\ outcomes' = <<>>
    /\ invocations' = [i \in 1..Len(executables') |-> 0]
    /\ test_results' = <<>>
    /\ did' = did \cup {"run_tests"}
    /\ pc' = "run_tests_loop"
    /\ UNCHANGED <<srcDir, compilable_tests, cmakeTargets, setupVars, fileVars, envVars,
                   parseVars, selVars, buildVars, endVars>>

\* run_tests, lines 285-363: one turn of the loop over the executables
run_test_executable ==
    /\ pc = "run_tests_loop"
    /\ exeIdx <= Len(executables)
    /\ LET exe == executables[exeIdx] IN
       IF exe.x_ok
       THEN \E o \in RunOutcomes :
               /\ invocations' = [invocations EXCEPT ![exeIdx] = @ + 1]
               /\ outcomes' = Append(outcomes, o)
               /\ test_results' = Append(test_results, ResultOf(exe.name, o))
       ELSE /\ outcomes' = Append(outcomes, Skipped)
            /\ UNCHANGED <<invocations, test_results>>
    /\ exeIdx' = exeIdx + 1
    /\ UNCHANGED <<pc, srcDir, compilable_tests, cmakeTargets, did, executables,
                   setupVars, fileVars, envVars, parseVars, selVars, buildVars, endVars>>

\* run(), line 576, once run_tests has returned
generate_test_reports ==
    /\ pc = "run_tests_loop"
    /\ exeIdx > Len(executables)
    /\ reports' = GenerateTestReports(reports, test_results)
    /\ did' = did \cup {"generate_test_reports"}
    /\ pc' = "generate_coverage"
    /\ UNCHANGED <<srcDir, compilable_tests, cmakeTargets, test_results, unity,
                   buildTestsDir, fileVars,
                   envVars, parseVars, selVars, buildVars, execVars, endVars>>

\* run(), line 579; the value generate_coverage returns is dropped
generate_coverage ==
    /\ pc = "generate_coverage"
    /\ coverageOutcome' \in CoverageOutcomes
    /\ did' = did \cup {"generate_coverage"}
    /\ pc' = "print_summary"
    /\ UNCHANGED <<srcDir, compilable_tests, cmakeTargets, test_results, setupVars, fileVars,
                   envVars, parseVars, selVars, buildVars, execVars, raised, returned,
                   exitCode>>

\* run(), lines 582-595, and main(), lines 662-664
print_summary ==
    /\ pc = "print_summary"
    /\ did' = did \cup {"print_summary"}
    /\ returned' = IF RunReturnValue(test_results) THEN "True" ELSE "False"
    /\ exitCode' = ExitCode(returned')
    /\ pc' = "done"
    /\ UNCHANGED <<srcDir, compilable_tests, cmakeTargets, test_results, setupVars, fileVars,
                   envVars, parseVars, selVars, buildVars, execVars,
                   coverageOutcome, raised>>

Next ==
    \/ main
    \/ find_compilable_tests
    \/ copy_unity_framework
    \/ copy_source_files
    \/ copy_test_files
    \/ create_cmake_lists
    \/ build_tests
    \/ run_tests
    \/ run_test_executable
    \/ generate_test_reports
    \/ generate_coverage
    \/ print_summary

Spec == Init /\ [][Next]_vars

-----------------------------------------------------------------------------
(* Claims on the run (Spec) *)

Done == pc = "done"

\* the verification directory is missing or names no existing test file
DiscoveryEmpty ==
    \/ ~verification.exists
    \/ \A f \in verification.files :
          IsCompilesYesReport(f) => TestFileOf(f) \notin DOMAIN testsDir

\* either cmake invocation exited non-zero
BuildExitedNonZero == configureOutcome = "failed" \/ buildOutcome = "failed"

\* run() got to its last statement: tools found, tests discovered, build done
RunCompleted == "print_summary" \in did

\* per-assertion counts were parsed from some binary
CountsParsed == \E i \in 1..Len(test_results) : test_results[i].individual_tests > 0

\* every binary reports zero failed assertions or, without any parsed
\* counts, every binary exited with code zero
FullSuccess ==
    IF CountsParsed
    THEN \A i \in 1..Len(test_results) : test_results[i].individual_failed = 0
    ELSE \A i \in 1..Len(test_results) : test_results[i].returncode = 0

\* C7: the exit code is 0 exactly on full success and 1 in every other
\* case, a missing cmake and an empty discovery included.
C7_ExitCode ==
    Done =>
        /\ exitCode \in {0, 1}
        /\ exitCode = 0 <=> (RunCompleted /\ FullSuccess)
        /\ ~cmakeOnPath => exitCode = 1
        /\ DiscoveryEmpty => exitCode = 1

\* C7 witness: a finished run of two binaries, one with parsed counts and no
\* failure, one without output that exited non-zero, and exit code 0
C7_Witness ==
    /\ Done /\ RunCompleted /\ exitCode = 0
    /\ Len(test_results) = 2
    /\ \E i, j \in 1..2 :
          /\ test_results[i].individual_tests > 0
          /\ test_results[j].individual_tests = 0
          /\ test_results[j].returncode # 0

LaterSteps ==
    {"copy_unity_framework", "copy_source_files", "copy_test_files",
     "create_cmake_lists", "build_tests", "run_tests", "generate_test_reports",
     "generate_coverage", "print_summary"}

\* C8: after a discovery that finds nothing run() has returned failure, the
\* exit code is 1 and no later step has run.
C8_DiscoveryAborts ==
    (cmakeOnPath /\ pc \notin {"main", "find_compilable_tests"} /\ DiscoveryEmpty) =>
        /\ Done
        /\ returned = "False"
        /\ exitCode = 1
        /\ did \cap LaterSteps = {}
        /\ srcDir = NoFiles /\ cmakeTargets = NoFiles
        /\ unity = "none" /\ buildTestsDir = NoFiles
        /\ reports \in StaleReports
        /\ buildCalls = 0 /\ configureOutcome = "none" /\ buildOutcome = "none"
        /\ executables = <<>> /\ test_results = <<>>
        /\ coverageOutcome = "none"

\* C8 witness: the directory exists and holds a compiles_yes marker whose
\* test file does not exist, and the run has ended
C8_Witness ==
    /\ Done /\ cmakeOnPath /\ DiscoveryEmpty
    /\ verification.exists
    /\ \E f \in verification.files : IsCompilesYesReport(f)
    /\ returned = "False"

\* C9: after a cmake invocation that exited non-zero build_tests has returned
\* False, run() has returned failure and nothing was executed, reported or
\* covered; build_tests is called at most once.
C9_BuildFailureAborts ==
    /\ buildCalls <= 1
    /\ BuildExitedNonZero =>
        /\ buildResult = "False"
        /\ Done
        /\ returned = "False"
        /\ exitCode = 1
        /\ did \cap {"run_tests", "generate_test_reports", "generate_coverage",
                     "print_summary"} = {}
        /\ executables = <<>> /\ test_results = <<>>
        /\ reports \in StaleReports
        /\ coverageOutcome = "none"

\* C9 witness: the configure step passed and the build step exited non-zero
C9_Witness ==
    /\ Done
    /\ configureOutcome = "ok" /\ buildOutcome = "failed"
    /\ "create_cmake_lists" \in did

ResultsNamed(name) == {j \in 1..Len(test_results) : test_results[j].name = name}

TimedOutOrRaised(o) == o.error # "" \/ o.elapsed > TestTimeout

\* C10: every executable binary the loop has passed was run once and has one
\* TestResult; for a timeout or an exception that result is the failure with
\* code -1 and zero counts; the loop passes every executable.
C10_ExecutionErrorsIsolated ==
    /\ (pc = "run_tests_loop" \/ "generate_test_reports" \in did) =>
          /\ Len(outcomes) = exeIdx - 1
          /\ \A i \in 1..Len(outcomes) :
                executables[i].x_ok =>
                    /\ invocations[i] = 1
                    /\ Cardinality(ResultsNamed(executables[i].name)) = 1
                    /\ TimedOutOrRaised(outcomes[i]) =>
                          \A j \in ResultsNamed(executables[i].name) :
                              /\ test_results[j].success = FALSE
                              /\ test_results[j].returncode = -1
                              /\ test_results[j].individual_tests = 0
                              /\ test_results[j].individual_passed = 0
                              /\ test_results[j].individual_failed = 0
    /\ "generate_test_reports" \in did => Len(outcomes) = Len(executables)

\* C10 witness: the first of two binaries timed out and the second ran to
\* its end and has its result
C10_Witness ==
    /\ "generate_test_reports" \in did
    /\ Len(executables) = 2 /\ Len(test_results) = 2
    /\ outcomes[1].elapsed > TestTimeout
    /\ test_results[2].returncode = 0 /\ test_results[2].individual_tests > 0

CoverageRan == coverageOutcome # "none"

CoverageFailed == GenerateCoverageResult(coverageOutcome) = "False"

\* C11: whatever way generate_coverage ends, the summary is printed next and
\* the value run() returns and the exit code depend on the test results
\* alone: success exactly when the results are a full success.
C11_CoverageNeverFails ==
    CoverageRan =>
        /\ coverageOutcome \in CoverageOutcomes
        /\ pc \in {"print_summary", "done"}
        /\ Done =>
              /\ "print_summary" \in did
              /\ returned = "True" <=> FullSuccess
              /\ exitCode = 0 <=> FullSuccess

\* C11 witness: a coverage tool exited non-zero, the summary was printed and
\* the run of passing tests ended with success
C11_Witness ==
    /\ Done /\ CoverageRan /\ CoverageFailed
    /\ coverageOutcome = "genhtml_failed"
    /\ "print_summary" \in did
    /\ CountsParsed
    /\ returned = "True" /\ exitCode = 0

\* some recorded TestResult has success = False
SomeBinaryFailed == \E i \in 1..Len(test_results) : ~test_results[i].success

TotalTests == Sum(test_results, "individual_tests", 1)

TotalPassed == Sum(test_results, "individual_passed", 1)

\* C15 as stated: a run with a TestResult whose success is False returns
\* False and ends with exit code 1, whatever the counts of the other
\* binaries are.
C15_AnyFailedBinaryFailsRun ==
    (Done /\ RunCompleted /\ SomeBinaryFailed) =>
        returned = "False" /\ exitCode = 1

\* C15 amended: a run with a TestResult whose success is False returns False
\* and ends with exit code 1 exactly when no per-assertion counts were parsed
\* from any binary or the passed assertions are fewer than the counted ones;
\* with counts parsed and every counted assertion passed it returns True and
\* ends with exit code 0.
C15_FailedBinaryFailsRunByCounts ==
    (Done /\ RunCompleted /\ SomeBinaryFailed) =>
        /\ returned \in {"True", "False"}
        /\ exitCode = ExitCode(returned)
        /\ returned = "False" <=> (TotalTests = 0 \/ TotalPassed # TotalTests)

\* C15 witness: one binary timed out, the other reported passing assertions
\* only, and the run ended with success
C15_Witness ==
    /\ Done /\ RunCompleted /\ SomeBinaryFailed
    /\ \E i, j \in 1..Len(test_results) :
          /\ test_results[i].errors = "Test timed out"
          /\ test_results[j].success
          /\ test_results[j].individual_passed > 0
    /\ TotalPassed = TotalTests
    /\ returned = "True" /\ exitCode = 0

=============================================================================
